---------------------------- MODULE Spec2Model ----------------------------
(***************************************************************************)
(* Single-instance coordination and local control channel of               *)
(* pipeweaver-app (src/src/main.rs, src/src/window_handler.rs).            *)
(*                                                                         *)
(* Several processes of one user session are launched in any order.  Each  *)
(* runs real_main: handle_active_instance (the Detector), then the         *)
(* websocket thread (the Liveness Client), then the IPC thread (the        *)
(* Listener) and the Qt engine whose timer polls check_notifications.      *)
(* The processes share one thing: the socket file at the rendezvous path.  *)
(***************************************************************************)
EXTENDS Integers, Sequences, FiniteSets, TLC

\* ------------------------------------------------------------------ bounds
NumProcs == 3        \* processes launched in the session
MaxClients == 1      \* connections made by clients other than the Detector
NumLive == 2         \* processes launched in the runs checked for liveness
MaxFaults == 1       \* system calls of the IPC threads that fail unexpectedly

Procs == 1..NumProcs

\* ------------------------------------------------------- program constants
TRIGGER == "TRIGGER"             \* b"TRIGGER" / msg == "TRIGGER"
InvalidUtf8 == "\\xff"           \* a body read_to_string rejects (InvalidData)
Bodies == {TRIGGER, "", "TRIGGERS", InvalidUtf8}
\* a connection whose client has not closed its end: no end-of-stream yet
Open == "<open>"

\* WindowMessage::Trigger.  The enum carries no data; n (it was sent for the
\* n-th connection the Listener accepted) is history that lets one message
\* be told from another.
Trigger(n) == <<"Trigger", n>>
\* WindowMessage::Close
Close == <<"Close", 1>>

VARIABLES
    file,      \* what the rendezvous path names: 0 for nothing, -1 for a
               \* socket file left by an earlier session, or the process
               \* whose listener socket created the inode
    pc,        \* position of each process's main thread
    ws,        \* position of each websocket thread
    res,       \* the Liveness Result channel: results sent so far
    ipc,       \* position of each IPC thread
    lsock,     \* the process holds a live listening socket bound to the path
    conn,      \* backlog of the listening socket: bodies of pending connections
    q,         \* the notify channel (Relay)
    sig,       \* signals emitted by the WindowHandler, in order
    nreq,      \* connections read by the Listener whose body was TRIGGER
    ntrig,     \* Trigger messages sent by the Listener
    nacc,      \* connections accepted and read by the Listener
    nclients,  \* connections made by other clients so far
    nfaults,   \* unexpected system call failures so far
    hai,       \* how handle_active_instance returned: "absent" (false, no
               \* file), "stale" (false, file removed), "forwarded" (true);
               \* history, kept until the process has tried to bind or ended
    after,     \* the processes that were running with the address bound when
               \* this one was launched; history, kept until its connect
    fwd        \* <<a, k>> when the Detector's connection was the k-th made
               \* to the socket of process a; <<0, 0>> otherwise; history

vars == <<file, pc, ws, res, ipc, lsock, conn, q, sig, nreq, ntrig, nacc, nclients,
          nfaults, hai, after, fwd>>

\* ------------------------------------------------------------ file system
\* Path::exists on the socket path
Exists == file /= 0

\* UnixStream::connect: succeeds iff the path names the inode of a socket
\* that is still listening
Connectable == file \in Procs /\ lsock[file]

\* std::io::Read::read_to_string on an accepted stream: the whole body up to
\* end-of-stream, an error when the bytes are not UTF-8
ReadToString(body) ==
    IF body = InvalidUtf8 THEN [ok |-> FALSE, msg |-> ""]
                          ELSE [ok |-> TRUE, msg |-> body]

\* ------------------------------------------------------------------- Init
Init ==
    /\ file \in {0, -1}
    /\ pc = [p \in Procs |-> "idle"]
    /\ ws = [p \in Procs |-> "none"]
    /\ res = [p \in Procs |-> <<>>]
    /\ ipc = [p \in Procs |-> "none"]
    /\ lsock = [p \in Procs |-> FALSE]
    /\ conn = [p \in Procs |-> <<>>]
    /\ q = [p \in Procs |-> <<>>]
    /\ sig = [p \in Procs |-> <<>>]
    /\ nreq = [p \in Procs |-> 0]
    /\ ntrig = [p \in Procs |-> 0]
    /\ nacc = [p \in Procs |-> 0]
    /\ nclients = 0
    /\ nfaults = 0
    /\ hai = [p \in Procs |-> "none"]
    /\ after = [p \in Procs |-> {}]
    /\ fwd = [p \in Procs |-> <<0, 0>>]

\* As Init, but the user starts only the first NumLive processes
LiveInit ==
    /\ file \in {0, -1}
    /\ pc = [p \in Procs |-> IF p <= NumLive THEN "idle" ELSE "off"]
    /\ ws = [p \in Procs |-> "none"]
    /\ res = [p \in Procs |-> <<>>]
    /\ ipc = [p \in Procs |-> "none"]
    /\ lsock = [p \in Procs |-> FALSE]
    /\ conn = [p \in Procs |-> <<>>]
    /\ q = [p \in Procs |-> <<>>]
    /\ sig = [p \in Procs |-> <<>>]
    /\ nreq = [p \in Procs |-> 0]
    /\ ntrig = [p \in Procs |-> 0]
    /\ nacc = [p \in Procs |-> 0]
    /\ nclients = 0
    /\ nfaults = 0
    /\ hai = [p \in Procs |-> "none"]
    /\ after = [p \in Procs |-> {}]
    /\ fwd = [p \in Procs |-> <<0, 0>>]

\* A process whose UI runs and whose Listener holds the socket it bound
RunningBound(p) == pc[p] = "ui" /\ lsock[p] /\ ipc[p] \in {"nonblock", "accept"}

\* ------------------------------------------------------------ main thread
\* Mutant of Launch: the Detector connects without the existence check
Launch_NoExistsCheck(p) ==
    /\ pc[p] = "idle"
    /\ \A o \in Procs : o < p => pc[o] /= "idle"
    /\ pc' = [pc EXCEPT ![p] = "connect"]
    /\ after' = [after EXCEPT ![p] = {o \in Procs : RunningBound(o)}]
    /\ UNCHANGED <<file, ws, res, ipc, lsock, conn, q, sig, nreq, ntrig, nacc, nclients,
                   nfaults, hai, fwd>>

\* The user starts the program: main, real_main, and handle_active_instance
\* up to if !socket_path.exists() { return false; }.  Processes are
\* interchangeable before they start, so they start in order.
Launch(p) ==
    /\ pc[p] = "idle"
    /\ \A o \in Procs : o < p => pc[o] /= "idle"
    /\ pc' = [pc EXCEPT ![p] = IF Exists THEN "connect" ELSE "start"]
    /\ hai' = [hai EXCEPT ![p] = IF Exists THEN @ ELSE "absent"]
    /\ after' = [after EXCEPT ![p] = IF Exists THEN {o \in Procs : RunningBound(o)} ELSE {}]
    /\ UNCHANGED <<file, ws, res, ipc, lsock, conn, q, sig, nreq, ntrig, nacc, nclients, nfaults, fwd>>

\* handle_active_instance: UnixStream::connect; on Ok write TRIGGER, drop the
\* stream and return true, after which real_main returns Ok(())
HaiConnect(p) ==
    /\ pc[p] = "connect"
    /\ IF Connectable
       THEN /\ conn' = [conn EXCEPT ![file] = Append(@, TRIGGER)]
            /\ pc' = [pc EXCEPT ![p] = "fwd_exit"]
            /\ hai' = [hai EXCEPT ![p] = "forwarded"]
            /\ fwd' = [fwd EXCEPT ![p] = <<file, nacc[file] + Len(conn[file]) + 1>>]
       ELSE /\ pc' = [pc EXCEPT ![p] = "remove"]
            /\ UNCHANGED <<conn, hai, fwd>>
    /\ after' = [after EXCEPT ![p] = {}]
    /\ UNCHANGED <<file, ws, res, ipc, lsock, q, sig, nreq, ntrig, nacc, nclients, nfaults>>

\* handle_active_instance: Err(e) => fs::remove_file(socket_path); false
HaiRemove(p) ==
    /\ pc[p] = "remove"
    /\ file' = 0
    /\ pc' = [pc EXCEPT ![p] = "start"]
    /\ hai' = [hai EXCEPT ![p] = "stale"]
    /\ UNCHANGED <<ws, res, ipc, lsock, conn, q, sig, nreq, ntrig, nacc, nclients, nfaults, after, fwd>>

\* real_main: create both channels, spawn websocket_main_thread, block in recv
SpawnWs(p) ==
    /\ pc[p] = "start"
    /\ pc' = [pc EXCEPT ![p] = "recv"]
    /\ ws' = [ws EXCEPT ![p] = "connect"]
    /\ UNCHANGED <<file, res, ipc, lsock, conn, q, sig, nreq, ntrig, nacc, nclients, nfaults, hai, after, fwd>>

\* Mutant of RecvResult: the result is received but its error is ignored
RecvResult_ErrorIgnored(p) ==
    /\ pc[p] = "recv"
    /\ res[p] /= <<>>
    /\ pc' = [pc EXCEPT ![p] = "spawn_ipc"]
    /\ UNCHANGED <<file, ws, res, ipc, lsock, conn, q, sig, nreq, ntrig, nacc, nclients,
                   nfaults, hai, after, fwd>>

\* real_main: if let Err(e) = res_rx.recv()? { bail!(..) }
RecvResult(p) ==
    /\ pc[p] = "recv"
    /\ res[p] /= <<>>
    /\ pc' = [pc EXCEPT ![p] = IF Head(res[p]) = "ok" THEN "spawn_ipc" ELSE "err_exit"]
    /\ hai' = [hai EXCEPT ![p] = IF Head(res[p]) = "ok" THEN @ ELSE "none"]
    /\ UNCHANGED <<file, ws, res, ipc, lsock, conn, q, sig, nreq, ntrig, nacc, nclients, nfaults, after, fwd>>

\* real_main: spawn ipc_thread_main, build the QmlEngine, engine.exec()
SpawnIpc(p) ==
    /\ pc[p] = "spawn_ipc"
    /\ pc' = [pc EXCEPT ![p] = "ui"]
    /\ ipc' = [ipc EXCEPT ![p] = "mkdir"]
    /\ UNCHANGED <<file, ws, res, lsock, conn, q, sig, nreq, ntrig, nacc, nclients, nfaults, hai, after, fwd>>

\* WindowHandler::on_trigger / on_close: the signal emitted for a message
Signal(msg) ==
    IF msg[1] = "Trigger" THEN <<"trigger", msg[2]>> ELSE <<"close", msg[2]>>

\* Mutant of CheckNotifications: the pending messages are handled newest first
CheckNotifications_NewestFirst(p) ==
    /\ pc[p] = "ui"
    /\ sig' = [sig EXCEPT ![p] =
                  @ \o [i \in 1..Len(q[p]) |-> Signal(q[p][Len(q[p]) + 1 - i])]]
    /\ q' = [q EXCEPT ![p] = <<>>]
    /\ UNCHANGED <<file, pc, ws, res, ipc, lsock, conn, nreq, ntrig, nacc, nclients,
                   nfaults, hai, after, fwd>>

\* Mutant of CheckNotifications: rx.recv() in place of rx.try_recv(), the
\* poll waits for a message
CheckNotifications_BlockingRecv(p) ==
    /\ pc[p] = "ui"
    /\ q[p] /= <<>>
    /\ sig' = [sig EXCEPT ![p] = @ \o [i \in 1..Len(q[p]) |-> Signal(q[p][i])]]
    /\ q' = [q EXCEPT ![p] = <<>>]
    /\ UNCHANGED <<file, pc, ws, res, ipc, lsock, conn, nreq, ntrig, nacc, nclients,
                   nfaults, hai, after, fwd>>

\* Mutant of CheckNotifications: if let in place of while let, one message
\* is taken per poll
CheckNotifications_OneMessage(p) ==
    /\ pc[p] = "ui"
    /\ IF q[p] = <<>>
       THEN UNCHANGED <<q, sig>>
       ELSE /\ sig' = [sig EXCEPT ![p] = Append(@, Signal(Head(q[p])))]
            /\ q' = [q EXCEPT ![p] = Tail(@)]
    /\ UNCHANGED <<file, pc, ws, res, ipc, lsock, conn, nreq, ntrig, nacc, nclients,
                   nfaults, hai, after, fwd>>

\* Mutant of CheckNotifications: a Close message is taken and not acted on
CheckNotifications_CloseDropped(p) ==
    /\ pc[p] = "ui"
    /\ sig' = [sig EXCEPT ![p] =
                  @ \o SelectSeq([i \in 1..Len(q[p]) |-> Signal(q[p][i])],
                                 LAMBDA g : g[1] = "trigger")]
    /\ q' = [q EXCEPT ![p] = <<>>]
    /\ UNCHANGED <<file, pc, ws, res, ipc, lsock, conn, nreq, ntrig, nacc, nclients,
                   nfaults, hai, after, fwd>>

\* WindowHandler::check_notifications: while let Ok(msg) = self.rx.try_recv()
CheckNotifications(p) ==
    /\ pc[p] = "ui"
    /\ sig' = [sig EXCEPT ![p] = @ \o [i \in 1..Len(q[p]) |-> Signal(q[p][i])]]
    /\ q' = [q EXCEPT ![p] = <<>>]
    /\ UNCHANGED <<file, pc, ws, res, ipc, lsock, conn, nreq, ntrig, nacc, nclients, nfaults, hai, after, fwd>>

\* real_main: engine.exec() returns and the process ends; its threads and
\* its memory end with it, the listening socket is closed and the socket
\* file stays behind
ProcessExit(p) ==
    /\ pc[p] = "ui"
    /\ pc' = [pc EXCEPT ![p] = "ui_exit"]
    /\ ws' = [ws EXCEPT ![p] = "dead"]
    /\ ipc' = [ipc EXCEPT ![p] = "dead"]
    /\ lsock' = [lsock EXCEPT ![p] = FALSE]
    /\ conn' = [conn EXCEPT ![p] = <<>>]
    /\ q' = [q EXCEPT ![p] = <<>>]
    /\ sig' = [sig EXCEPT ![p] = <<>>]
    /\ nreq' = [nreq EXCEPT ![p] = 0]
    /\ ntrig' = [ntrig EXCEPT ![p] = 0]
    /\ nacc' = [nacc EXCEPT ![p] = 0]
    /\ hai' = [hai EXCEPT ![p] = "none"]
    /\ UNCHANGED <<file, res, nclients, nfaults, after, fwd>>

\* main: Ok(()) is exit status 0, bail!(e) is exit status 1; "running" while
\* the process has not ended
ExitCode(p) ==
    IF pc[p] \in {"fwd_exit", "ui_exit"} THEN "0"
    ELSE IF pc[p] = "err_exit" THEN "1"
    ELSE "running"

\* ------------------------------------------------------- websocket thread
\* Mutant of WsConnectFail: the failure path falls through to the final
\* tx.send(WindowMessage::Close)
WsConnectFail_FallsThrough(p) ==
    /\ ws[p] = "connect"
    /\ res' = [res EXCEPT ![p] = Append(@, "err")]
    /\ q' = [q EXCEPT ![p] = Append(@, Close)]
    /\ ws' = [ws EXCEPT ![p] = "done"]
    /\ UNCHANGED <<file, pc, ipc, lsock, conn, sig, nreq, ntrig, nacc, nclients, nfaults, hai, after, fwd>>

\* websocket_main_thread: Uri::builder / connect fails: res.send(Err); return
WsConnectFail(p) ==
    /\ ws[p] = "connect"
    /\ res' = [res EXCEPT ![p] = Append(@, "err")]
    /\ ws' = [ws EXCEPT ![p] = "done"]
    /\ UNCHANGED <<file, pc, ipc, lsock, conn, q, sig, nreq, ntrig, nacc, nclients, nfaults, hai, after, fwd>>

\* websocket_main_thread: connect succeeds: res.send(Ok(()))
WsConnectOk(p) ==
    /\ ws[p] = "connect"
    /\ res' = [res EXCEPT ![p] = Append(@, "ok")]
    /\ ws' = [ws EXCEPT ![p] = "read"]
    /\ UNCHANGED <<file, pc, ipc, lsock, conn, q, sig, nreq, ntrig, nacc, nclients, nfaults, hai, after, fwd>>

\* websocket_main_thread: socket.read() yields a Ping (answered with a Pong)
\* or another frame that is ignored; the loop goes on
WsFrame(p) ==
    /\ ws[p] = "read"
    /\ UNCHANGED vars

\* Mutant of WsDisconnect: only a Close frame sends Close; an error returns
WsDisconnect_CloseFrameOnly(p) ==
    /\ ws[p] = "read"
    /\ \E cause \in {"close_frame", "connection_closed", "protocol", "other"} :
          q' = [q EXCEPT ![p] = IF cause = "close_frame" THEN Append(@, Close) ELSE @]
    /\ ws' = [ws EXCEPT ![p] = "done"]
    /\ UNCHANGED <<file, pc, res, ipc, lsock, conn, sig, nreq, ntrig, nacc, nclients,
                   nfaults, hai, after, fwd>>

\* websocket_main_thread: a Close frame, ConnectionClosed, a Protocol error
\* or another error breaks the loop; tx.send(WindowMessage::Close)
WsDisconnect(p) ==
    /\ ws[p] = "read"
    /\ \E cause \in {"close_frame", "connection_closed", "protocol", "other"} :
          q' = [q EXCEPT ![p] = Append(@, Close)]
    /\ ws' = [ws EXCEPT ![p] = "done"]
    /\ UNCHANGED <<file, pc, res, ipc, lsock, conn, sig, nreq, ntrig, nacc, nclients, nfaults, hai, after, fwd>>

\* ------------------------------------------------------------- IPC thread
\* ipc_thread_main: fs::create_dir_all(parent) fails: bail!
IpcMkdirFail(p) ==
    /\ ipc[p] = "mkdir"
    /\ nfaults < MaxFaults
    /\ nfaults' = nfaults + 1
    /\ ipc' = [ipc EXCEPT ![p] = "err_mkdir"]
    /\ hai' = [hai EXCEPT ![p] = "none"]
    /\ UNCHANGED <<file, pc, ws, res, lsock, conn, q, sig, nreq, ntrig, nacc, nclients, after, fwd>>

\* ipc_thread_main: the directory is there; if socket_path.exists()
IpcExists(p) ==
    /\ ipc[p] = "mkdir"
    /\ ipc' = [ipc EXCEPT ![p] = IF Exists THEN "remove" ELSE "bind"]
    /\ UNCHANGED <<file, pc, ws, res, lsock, conn, q, sig, nreq, ntrig, nacc, nclients, nfaults, hai, after, fwd>>

\* ipc_thread_main: let _ = fs::remove_file(&socket_path)
IpcRemove(p) ==
    /\ ipc[p] = "remove"
    /\ file' = 0
    /\ ipc' = [ipc EXCEPT ![p] = "bind"]
    /\ UNCHANGED <<pc, ws, res, lsock, conn, q, sig, nreq, ntrig, nacc, nclients, nfaults, hai, after, fwd>>

\* Mutant of IpcBind: a failed bind asks the window to close
IpcBind_FailureClosesUi(p) ==
    /\ ipc[p] = "bind"
    /\ IF Exists
       THEN /\ ipc' = [ipc EXCEPT ![p] = "err_bind"]
            /\ q' = [q EXCEPT ![p] = Append(@, Close)]
            /\ UNCHANGED <<file, lsock>>
       ELSE /\ file' = p
            /\ lsock' = [lsock EXCEPT ![p] = TRUE]
            /\ ipc' = [ipc EXCEPT ![p] = "nonblock"]
            /\ UNCHANGED q
    /\ hai' = [hai EXCEPT ![p] = "none"]
    /\ UNCHANGED <<pc, ws, res, conn, sig, nreq, ntrig, nacc, nclients, nfaults, after, fwd>>

\* ipc_thread_main: UnixListener::bind: EADDRINUSE when the path names
\* anything, otherwise the socket file is created and the socket listens
IpcBind(p) ==
    /\ ipc[p] = "bind"
    /\ IF Exists
       THEN /\ ipc' = [ipc EXCEPT ![p] = "err_bind"]
            /\ UNCHANGED <<file, lsock>>
       ELSE /\ file' = p
            /\ lsock' = [lsock EXCEPT ![p] = TRUE]
            /\ ipc' = [ipc EXCEPT ![p] = "nonblock"]
    /\ hai' = [hai EXCEPT ![p] = "none"]
    /\ UNCHANGED <<pc, ws, res, conn, q, sig, nreq, ntrig, nacc, nclients, nfaults, after, fwd>>

\* ipc_thread_main: listener.set_nonblocking(true)?
IpcNonblock(p) ==
    /\ ipc[p] = "nonblock"
    /\ \E ok \in BOOLEAN :
          IF ok
          THEN /\ ipc' = [ipc EXCEPT ![p] = "accept"]
               /\ UNCHANGED <<lsock, conn, nfaults>>
          ELSE /\ nfaults < MaxFaults
               /\ nfaults' = nfaults + 1
               /\ ipc' = [ipc EXCEPT ![p] = "err_nonblock"]
               /\ lsock' = [lsock EXCEPT ![p] = FALSE]
               /\ conn' = [conn EXCEPT ![p] = <<>>]
    /\ UNCHANGED <<file, pc, ws, res, q, sig, nreq, ntrig, nacc, nclients, hai, after, fwd>>

\* Mutant of IsTrigger: any non-empty message counts as a trigger
IsTrigger_NonEmpty(msg) == msg /= ""

\* ipc_thread_main: the message test of the accept loop
IsTrigger(msg) == msg = TRIGGER

\* Mutant of IpcAccept: a failed read ends the accept loop
IpcAccept_ReadErrorFatal(p) ==
    /\ ipc[p] = "accept"
    /\ conn[p] /= <<>>
    /\ Head(conn[p]) /= Open
    /\ LET body == Head(conn[p])
           r == ReadToString(body)
       IN /\ conn' = [conn EXCEPT ![p] = Tail(@)]
          /\ nreq' = [nreq EXCEPT ![p] = IF body = TRIGGER THEN @ + 1 ELSE @]
          /\ IF r.ok /\ IsTrigger(r.msg)
             THEN /\ q' = [q EXCEPT ![p] = Append(@, Trigger(nacc[p] + 1))]
                  /\ ntrig' = [ntrig EXCEPT ![p] = @ + 1]
             ELSE UNCHANGED <<q, ntrig>>
          /\ nacc' = [nacc EXCEPT ![p] = @ + 1]
          /\ ipc' = [ipc EXCEPT ![p] = IF r.ok THEN "accept" ELSE "cleanup"]
    /\ UNCHANGED <<file, pc, ws, res, lsock, sig, nclients, nfaults, hai, after, fwd>>

\* ipc_thread_main: listener.accept() yields a stream; read_to_string, which
\* returns only once the client has closed its end (the accepted stream is a
\* blocking one); msg == "TRIGGER" => tx.send(WindowMessage::Trigger)
IpcAccept(p) ==
    /\ ipc[p] = "accept"
    /\ conn[p] /= <<>>
    /\ Head(conn[p]) /= Open
    /\ LET body == Head(conn[p])
           r == ReadToString(body)
       IN /\ conn' = [conn EXCEPT ![p] = Tail(@)]
          /\ nreq' = [nreq EXCEPT ![p] = IF body = TRIGGER THEN @ + 1 ELSE @]
          /\ IF r.ok /\ IsTrigger(r.msg)
             THEN /\ q' = [q EXCEPT ![p] = Append(@, Trigger(nacc[p] + 1))]
                  /\ ntrig' = [ntrig EXCEPT ![p] = @ + 1]
             ELSE UNCHANGED <<q, ntrig>>
          /\ nacc' = [nacc EXCEPT ![p] = @ + 1]
    /\ UNCHANGED <<file, pc, ws, res, ipc, lsock, sig, nclients, nfaults, hai, after, fwd>>

\* ipc_thread_main: accept() would block: sleep 100 ms and poll again
IpcWouldBlock(p) ==
    /\ ipc[p] = "accept"
    /\ conn[p] = <<>>
    /\ UNCHANGED vars

\* ipc_thread_main: accept() fails with another error: break
IpcAcceptError(p) ==
    /\ ipc[p] = "accept"
    /\ nfaults < MaxFaults
    /\ nfaults' = nfaults + 1
    /\ ipc' = [ipc EXCEPT ![p] = "cleanup"]
    /\ UNCHANGED <<file, pc, ws, res, lsock, conn, q, sig, nreq, ntrig, nacc, nclients, hai, after, fwd>>

\* ipc_thread_main: after the loop, fs::remove_file(&socket_path); Ok(())
\* drops the listener
IpcCleanup(p) ==
    /\ ipc[p] = "cleanup"
    /\ file' = 0
    /\ lsock' = [lsock EXCEPT ![p] = FALSE]
    /\ conn' = [conn EXCEPT ![p] = <<>>]
    /\ ipc' = [ipc EXCEPT ![p] = "done_ok"]
    /\ UNCHANGED <<pc, ws, res, q, sig, nreq, ntrig, nacc, nclients, nfaults, hai, after, fwd>>

\* ------------------------------------------------------------ environment
\* Another local client connects to the socket, writes a body and closes
ClientSend(body) ==
    /\ nclients < MaxClients
    /\ Connectable
    /\ conn' = [conn EXCEPT ![file] = Append(@, body)]
    /\ nclients' = nclients + 1
    /\ UNCHANGED <<file, pc, ws, res, ipc, lsock, q, sig, nreq, ntrig, nacc, nfaults, hai, after, fwd>>

\* Another local client connects to the socket and keeps its end open
ClientOpen ==
    /\ nclients < MaxClients
    /\ Connectable
    /\ conn' = [conn EXCEPT ![file] = Append(@, Open)]
    /\ nclients' = nclients + 1
    /\ UNCHANGED <<file, pc, ws, res, ipc, lsock, q, sig, nreq, ntrig, nacc, nfaults, hai, after, fwd>>

\* A client that kept its end open writes a body and closes
ClientClose(body) ==
    \E p \in Procs : \E i \in 1..Len(conn[p]) :
       /\ conn[p][i] = Open
       /\ conn' = [conn EXCEPT ![p][i] = body]
       /\ UNCHANGED <<file, pc, ws, res, ipc, lsock, q, sig, nreq, ntrig, nacc, nclients,
                      nfaults, hai, after, fwd>>

Next ==
    \/ \E p \in Procs :
          \/ Launch(p)
          \/ HaiConnect(p)
          \/ HaiRemove(p)
          \/ SpawnWs(p)
          \/ RecvResult(p)
          \/ SpawnIpc(p)
          \/ CheckNotifications(p)
          \/ ProcessExit(p)
          \/ WsConnectFail(p)
          \/ WsConnectOk(p)
          \/ WsFrame(p)
          \/ WsDisconnect(p)
          \/ IpcMkdirFail(p)
          \/ IpcExists(p)
          \/ IpcRemove(p)
          \/ IpcBind(p)
          \/ IpcNonblock(p)
          \/ IpcAccept(p)
          \/ IpcWouldBlock(p)
          \/ IpcAcceptError(p)
          \/ IpcCleanup(p)
    \/ \E body \in Bodies : ClientSend(body)
    \/ ClientOpen
    \/ \E body \in Bodies : ClientClose(body)

Spec == Init /\ [][Next]_vars

\* The operating system schedules every thread that can run, and the Qt
\* timer of main.qml keeps calling check_notifications while the engine
\* runs.  Nothing obliges the user to start a process or to close a window,
\* the server to drop the websocket, a client to connect or a system call to
\* fail.
Fairness ==
    \A p \in Procs :
       /\ WF_vars(HaiConnect(p))
       /\ WF_vars(HaiRemove(p))
       /\ WF_vars(SpawnWs(p))
       /\ WF_vars(RecvResult(p))
       /\ WF_vars(SpawnIpc(p))
       /\ WF_vars(CheckNotifications(p))
       /\ WF_vars(WsConnectFail(p) \/ WsConnectOk(p))
       /\ WF_vars(IpcExists(p))
       /\ WF_vars(IpcRemove(p))
       /\ WF_vars(IpcBind(p))
       /\ WF_vars(IpcNonblock(p))
       /\ WF_vars(IpcAccept(p))
       /\ WF_vars(IpcCleanup(p))

FairSpec == LiveInit /\ [][Next]_vars /\ Fairness

\* ================================================================ claims
\* Helpers of the claims' formulas
RECURSIVE Tags(_, _)
\* the history numbers of the entries of kind k in a sequence of messages or
\* signals, in order
Tags(seq, k) ==
    IF seq = <<>> THEN <<>>
    ELSE IF Head(seq)[1] = k THEN <<Head(seq)[2]>> \o Tags(Tail(seq), k)
    ELSE Tags(Tail(seq), k)

Increasing(t) == \A i \in 1..Len(t) : \A j \in 1..Len(t) : i < j => t[i] < t[j]

\* every message of a process's Relay, delivered or pending, as signals
Delivered(p) == sig[p] \o [i \in 1..Len(q[p]) |-> Signal(q[p][i])]

\* the step is an accept of a connection by p's Listener
AcceptStep(p) ==
    /\ ipc[p] = "accept"
    /\ pc'[p] = pc[p]
    /\ Len(conn'[p]) < Len(conn[p])

\* C1: in every reachable state at most one process holds the rendezvous
\* address bound as a listener (a live listening socket bound to the path).
C1_OneListener == Cardinality({p \in Procs : lsock[p]}) <= 1

\* C2: a process whose Detector found a Listener has forwarded and exited
\* without a websocket thread, a Listener or a UI, and at most one process
\* has a constructed UI at any time.
C2_OneUi ==
    /\ \A p \in Procs :
          hai[p] = "forwarded" =>
             pc[p] = "fwd_exit" /\ ws[p] = "none" /\ ipc[p] = "none"
    /\ Cardinality({p \in Procs : pc[p] = "ui"}) <= 1

\* C3: once A runs with its Listener bound, a process B started afterwards
\* finds the socket file, connects, leaves TRIGGER in A's backlog and exits
\* with status 0 without starting a websocket thread, a Listener or a UI.
C3_Handoff ==
    [][\A a \in Procs : \A b \in Procs \ {a} :
          /\ (RunningBound(a) /\ pc[b] = "idle" /\ pc'[b] /= "idle")
                => pc'[b] = "connect"
          /\ (RunningBound(a) /\ a \in after[b] /\ pc[b] = "connect" /\ pc'[b] /= "connect")
                => /\ pc'[b] = "fwd_exit"
                   /\ conn'[a] = Append(conn[a], TRIGGER)
                   /\ ws'[b] = "none" /\ ipc'[b] = "none"]_vars

\* C4: the Trigger messages a Listener has enqueued are as many as the
\* connections it read whose body was exactly TRIGGER, and each of them is in
\* the Relay or delivered exactly once (none lost, none duplicated).
C4_TriggerPerRequest ==
    \A p \in Procs :
       /\ ntrig[p] = nreq[p]
       /\ Len(Tags(Delivered(p), "trigger")) = ntrig[p]
       /\ Increasing(Tags(Delivered(p), "trigger"))

C4_Witness ==
    \E p \in Procs : nreq[p] >= 2 /\ nacc[p] > nreq[p] /\ conn[p] = <<>>

\* C5: an accepted connection whose body is not exactly TRIGGER (the empty
\* body and a body that cannot be read included) enqueues nothing and leaves
\* the Listener in its accept loop with its socket bound and the socket
\* file as it was; a TRIGGER accepted after such a connection still enqueues
\* one Trigger.
C5_BadRequestDiscarded ==
    [][\A p \in Procs :
          AcceptStep(p) =>
             /\ Head(conn[p]) /= TRIGGER =>
                   /\ q'[p] = q[p]
                   /\ ipc'[p] = "accept"
                   /\ lsock[p] /\ lsock'[p]
                   /\ file' = file
             /\ (Head(conn[p]) = TRIGGER /\ nacc[p] > ntrig[p]) =>
                   q'[p] = Append(q[p], Trigger(nacc[p] + 1))]_vars

C5_Witness ==
    \E p \in Procs :
       /\ ipc[p] = "accept" /\ lsock[p] /\ file = p
       /\ nacc[p] = 2 /\ ntrig[p] = 1
       /\ q[p] = <<Trigger(2)>>

\* C6: a process whose Liveness Result is a failure never spawns its
\* Listener, never binds or creates the socket file, never constructs a UI,
\* and when it has ended its exit status is non-zero.
C6_LivenessFailure ==
    \A p \in Procs :
       (res[p] /= <<>> /\ Head(res[p]) = "err") =>
          /\ ipc[p] = "none"
          /\ ~lsock[p]
          /\ file /= p
          /\ pc[p] \in {"recv", "err_exit"}
          /\ ExitCode(p) \in {"running", "1"}

C6_Witness == \E p \in Procs : pc[p] = "err_exit" /\ ExitCode(p) = "1"

\* C7: when the socket file exists and the connect fails, the Detector
\* removes the file and returns false, and the later bind by that process's
\* Listener succeeds.
C7_StaleRecovery ==
    [][\A p \in Procs :
          /\ (pc[p] = "remove" /\ pc'[p] /= "remove")
                => file' = 0 /\ pc'[p] = "start" /\ hai'[p] = "stale"
          /\ (hai[p] = "stale" /\ ipc[p] = "bind" /\ ipc'[p] /= "bind" /\ pc'[p] = pc[p])
                => ipc'[p] = "nonblock" /\ lsock'[p] /\ file' = p]_vars

\* C8: when the socket file does not exist, handle_active_instance returns
\* false and changes nothing: no connection, no write, no file removed or
\* created.
C8_AbsentNoEffect ==
    [][\A p \in Procs :
          (pc[p] = "idle" /\ pc'[p] /= "idle" /\ file = 0) =>
             /\ pc'[p] = "start"
             /\ hai'[p] = "absent"
             /\ \A o \in Procs \ {p} : pc'[o] = pc[o]
             /\ UNCHANGED <<file, ws, res, ipc, lsock, conn, q, sig, nreq, ntrig, nacc,
                            nclients, nfaults, fwd>>]_vars

C8_Witness == \E p \in Procs : pc[p] = "start" /\ hai[p] = "absent" /\ file = 0

\* C9: whatever the interleaving of the Listener's and the websocket
\* thread's sends with the polls, every message sent is pending or delivered
\* exactly once, and the delivered and pending messages of each producer are
\* in the order that producer sent them.
C9_RelayExactlyOnceFifo ==
    \A p \in Procs :
       /\ Len(Tags(Delivered(p), "trigger")) = ntrig[p]
       /\ Increasing(Tags(Delivered(p), "trigger"))
       /\ Len(Tags(Delivered(p), "close")) =
             (IF ws[p] = "done" /\ res[p] = <<"ok">> THEN 1 ELSE 0)
       /\ Len(sig[p]) + Len(q[p]) = Len(Delivered(p))

C9_Witness ==
    \E p \in Procs :
       /\ q[p] = <<>>
       /\ Len(Tags(sig[p], "trigger")) >= 2
       /\ Len(Tags(sig[p], "close")) = 1
       /\ sig[p][2][1] = "close"

\* C10: when the websocket loop ends after a successful connect, whatever
\* the cause, exactly one Close is enqueued, by that step and by no other,
\* the Listener is left as it was (its position, its socket, its backlog,
\* the socket file), and afterwards it still turns a TRIGGER into a Trigger.
C10_CloseOnDisconnect ==
    [][\A p \in Procs :
          /\ (ws[p] = "read" /\ ws'[p] = "done") =>
                /\ q'[p] = Append(q[p], Close)
                /\ Tags(Delivered(p), "close") = <<>>
                /\ ipc' = ipc /\ lsock' = lsock /\ conn' = conn /\ file' = file
          /\ ~(ws[p] = "read" /\ ws'[p] = "done") =>
                Len(Tags(q'[p], "Close")) <= Len(Tags(q[p], "Close"))
          /\ (ws[p] = "done" /\ AcceptStep(p) /\ Head(conn[p]) = TRIGGER) =>
                q'[p] = Append(q[p], Trigger(nacc[p] + 1))]_vars

C10_Witness ==
    \E p \in Procs :
       /\ ws[p] = "done" /\ ipc[p] = "accept" /\ lsock[p]
       /\ q[p] = <<Close, Trigger(1)>>

\* the close signal has been emitted by p's WindowHandler
CloseSignalled(p) == \E i \in 1..Len(sig[p]) : sig[p][i][1] = "close"

\* C11: once the websocket of a started process is lost, its WindowHandler
\* eventually emits the close signal, unless the window was closed first;
\* the disconnect itself ends no process: it leaves every main thread where
\* it was.
C11_DisconnectClosesUi ==
    /\ \A p \in Procs :
          (ws[p] = "done" /\ res[p] = <<"ok">>)
             ~> (CloseSignalled(p) \/ pc[p] = "ui_exit")
    /\ [][\A p \in Procs : (ws[p] = "read" /\ ws'[p] = "done") => pc' = pc]_vars

C11_Witness ==
    \E p \in Procs : pc[p] = "ui" /\ ws[p] = "done" /\ CloseSignalled(p)

\* the Close message waits in p's Relay
CloseQueued(p) == \E i \in 1..Len(q[p]) : q[p][i] = Close

\* C12: the websocket thread sends exactly one result: none before its
\* connect attempt has ended, one from then on; the main thread spawns the IPC
\* thread and builds the UI only after a success result; Close is enqueued
\* only by a thread that sent the success result.
C12_OneLivenessResult ==
    \A p \in Procs :
       /\ Len(res[p]) = IF ws[p] \in {"none", "connect"} THEN 0 ELSE 1
       /\ (pc[p] \in {"spawn_ipc", "ui", "ui_exit"} \/ ipc[p] /= "none") => res[p] = <<"ok">>
       /\ (CloseQueued(p) \/ CloseSignalled(p)) => res[p] = <<"ok">>

C12_Witness ==
    \E p, o \in Procs :
       /\ res[p] = <<"err">> /\ ws[p] = "done" /\ pc[p] = "err_exit" /\ q[p] = <<>>
       /\ res[o] = <<"ok">> /\ ws[o] = "done" /\ CloseQueued(o)

\* ipc_thread_main has returned
ListenerExited(p) == ipc[p] \in {"done_ok", "err_mkdir", "err_bind", "err_nonblock"}

\* C13: whenever the IPC thread returns, by Ok(()) after its loop or by a
\* failure of create_dir_all, bind or set_nonblocking, the socket file is
\* absent at its return.
C13_RemovedOnEveryExit ==
    [][\A p \in Procs :
          (~ListenerExited(p) /\ ListenerExited(p)') => file' = 0]_vars

\* C14: a step of p's IPC thread on its way to the bind, taken while another
\* process holds the address bound as a live listener, leaves the socket file
\* and every listening socket as they are, and does not bind.
C14_BindExclusive ==
    [][\A p \in Procs :
          (/\ ipc[p] \in {"mkdir", "remove", "bind"}
           /\ ipc'[p] /= ipc[p]
           /\ Connectable /\ file /= p)
          => (file' = file /\ lsock' = lsock /\ ipc'[p] /= "nonblock")]_vars

\* C15: a poll that takes messages from the Relay of p or emits signals
\* leaves the Relay empty and appends to the signals emitted so far one
\* signal per pending message, in the order of the Relay: trigger for a
\* Trigger, close for a Close, each bearing the tag of its message.
C15_DrainToEmpty ==
    [][\A p \in Procs :
          (pc[p] = "ui" /\ pc'[p] = "ui"
             /\ (sig'[p] /= sig[p] \/ Len(q'[p]) < Len(q[p])))
          => /\ q'[p] = <<>>
             /\ Len(sig'[p]) = Len(sig[p]) + Len(q[p])
             /\ SubSeq(sig'[p], 1, Len(sig[p])) = sig[p]
             /\ \A i \in 1..Len(q[p]) :
                   sig'[p][Len(sig[p]) + i] =
                      (IF q[p][i] = Close THEN <<"close", q[p][i][2]>>
                                          ELSE <<"trigger", q[p][i][2]>>)]_vars

C15_Witness ==
    \E p \in Procs :
       /\ pc[p] = "ui" /\ q[p] = <<>>
       /\ \E i \in 1..Len(sig[p]) : i + 1 <= Len(sig[p])
             /\ sig[p][i][1] = "trigger" /\ sig[p][i + 1][1] = "close"

\* the IPC thread of p has accepted a connection and waits in read_to_string
\* for the client to close
ListenerInRead(p) == ipc[p] = "accept" /\ conn[p] /= <<>> /\ Head(conn[p]) = Open

AddressError(p) == ipc[p] \in {"err_mkdir", "err_bind"}

\* C17: the step by which the IPC thread returns on a failure of
\* create_dir_all or of bind changes nothing but that thread and the fault
\* count: no message is enqueued, the main thread and the websocket thread
\* stay where they are; from then on the UI of that process runs, its Relay
\* holds no Trigger, and a loss of its websocket still leads to the close
\* signal, unless the window is closed first.
C17_AddressErrorDegrades ==
    /\ [][\A p \in Procs :
             (~AddressError(p) /\ AddressError(p)')
             => UNCHANGED <<file, pc, ws, res, lsock, conn, q, sig, ntrig>>]_vars
    /\ [](\A p \in Procs :
             AddressError(p)
             => /\ pc[p] = "ui"
                /\ ntrig[p] = 0
                /\ ENABLED CheckNotifications(p))
    /\ \A p \in Procs :
          (AddressError(p) /\ ws[p] = "done")
             ~> (CloseSignalled(p) \/ pc[p] = "ui_exit")

C17_Witness ==
    \E p \in Procs :
       /\ ipc[p] = "err_bind" /\ pc[p] = "ui"
       /\ ws[p] = "done" /\ CloseSignalled(p)

\* C18: the fs::remove_file of handle_active_instance, reached after a failed
\* connect, never removes a socket file behind which a listener is bound at
\* that moment.
C18_RemoveOnlyUnbound ==
    [][\A p \in Procs :
          (pc[p] = "remove" /\ pc'[p] /= "remove") => ~Connectable]_vars

\* the most connections one socket can be made in a run
MaxTicket == NumProcs + MaxClients

\* process a is running with its IPC thread in or about to enter the accept loop
Serving(a) == pc[a] = "ui" /\ ipc[a] \in {"nonblock", "accept"}

\* the trigger signal for the k-th connection made to the socket of a
TriggerEmitted(a, k) == \E i \in 1..Len(sig[a]) : sig[a][i] = <<"trigger", k>>

\* C19: handle_active_instance returns true, the process then exiting with
\* status 0 without a UI, exactly when its connect succeeded; and once it
\* has, the instance it connected to eventually emits the trigger signal for
\* that connection, unless that instance or its Listener stops running
\* first, whatever other clients do.
C19_ForwardDelivered ==
    /\ [][\A p \in Procs :
             /\ (pc[p] = "connect" /\ pc'[p] /= "connect")
                   => (pc'[p] = "fwd_exit" <=> Connectable)
             /\ (pc[p] /= "connect" /\ pc[p] /= "fwd_exit") => pc'[p] /= "fwd_exit"]_vars
    /\ \A p \in Procs : \A a \in Procs : \A k \in 1..MaxTicket :
          (fwd[p] = <<a, k>>) ~> (TriggerEmitted(a, k) \/ ~Serving(a))

=============================================================================
